---- MODULE Spec2Model ----
(***************************************************************************)
(* Model of smtp_forward: the SMTP state machine (StateMachine::handle_smtp *)
(* in src/src/smtp.rs), the connection handler (Server::serve) and the      *)
(* extraction of a structured Message from the accumulated mail data.       *)
(*                                                                          *)
(* Strings are TLA+ strings; the string functions of the Rust standard      *)
(* library that the code calls (split_whitespace, to_lowercase,             *)
(* strip_prefix, ends_with, contains) are operators computed character by   *)
(* character.                                                               *)
(***************************************************************************)
EXTENDS Integers, Sequences, FiniteSets, TLC

VARIABLES
    pc,             \* where the caller of the state machine is: "unit" when
                    \* handle_smtp is called directly, as mod tests does, else
                    \* the place Server::serve has reached
    state,          \* StateMachine.state
    last,           \* the last call of handle_smtp: its input, the state it
                    \* was made in and its result
    appended,       \* chunks appended to mail.data since the DATA command
    written,        \* what the last step of Server::serve wrote to the socket
    extractorRuns,  \* times the State::Received arm parsed a mail
    sinkCalls,      \* times a Message was posted to the sink
    sent,           \* the Message posted to the sink
    backlog,        \* connections made to the listener and not yet accepted
    accepted        \* connections main has accepted so far

\* The TcpListener of main.
listener == <<backlog, accepted>>

vars == <<pc, state, last, appended, written, extractorRuns, sinkCalls, sent,
          backlog, accepted>>

---------------------------------------------------------------------------
(* Bounds of the model.                                                    *)

\* Longest recipient list a client of the model builds.
MaxRcpt == 2

\* Largest number of chunks a client of the model sends in the data phase.
MaxBody == 2
MaxClients == 2

---------------------------------------------------------------------------
(* String functions of the Rust standard library.                          *)

Char(s, i) == SubSeq(s, i, i)

IsWhitespace(c) == c \in {" ", "\t", "\n", "\r"}

Upper == <<"A", "B", "C", "D", "E", "F", "G", "H", "I", "J", "K", "L", "M",
           "N", "O", "P", "Q", "R", "S", "T", "U", "V", "W", "X", "Y", "Z">>

Lower == <<"a", "b", "c", "d", "e", "f", "g", "h", "i", "j", "k", "l", "m",
           "n", "o", "p", "q", "r", "s", "t", "u", "v", "w", "x", "y", "z">>

LowerChar(c) ==
    IF \E k \in 1..26 : Upper[k] = c
    THEN Lower[CHOOSE k \in 1..26 : Upper[k] = c]
    ELSE c

RECURSIVE to_lowercase(_)
to_lowercase(s) ==
    IF Len(s) = 0 THEN ""
    ELSE LowerChar(Char(s, 1)) \o to_lowercase(SubSeq(s, 2, Len(s)))

starts_with(s, p) == Len(s) >= Len(p) /\ SubSeq(s, 1, Len(p)) = p

ends_with(s, p) == Len(s) >= Len(p) /\ SubSeq(s, Len(s) - Len(p) + 1, Len(s)) = p

contains(s, p) == \E i \in 1..(Len(s) - Len(p) + 1) : SubSeq(s, i, i + Len(p) - 1) = p

None == [some |-> FALSE]

Some(v) == [some |-> TRUE, val |-> v]

\* str::strip_prefix: the rest of s after the prefix p, or None.
strip_prefix(s, p) ==
    IF starts_with(s, p) THEN Some(SubSeq(s, Len(p) + 1, Len(s))) ELSE None

\* Index of the first character of s at or after i that is (ws = TRUE) or
\* is not (ws = FALSE) whitespace; Len(s) + 1 when there is none.
RECURSIVE Scan(_, _, _)
Scan(s, i, ws) ==
    IF i > Len(s) THEN Len(s) + 1
    ELSE IF IsWhitespace(Char(s, i)) = ws THEN i
    ELSE Scan(s, i + 1, ws)

\* str::split_whitespace: the maximal runs of non-whitespace, in order.
RECURSIVE SplitFrom(_, _)
SplitFrom(s, i) ==
    LET b == Scan(s, i, FALSE)
        e == Scan(s, b, TRUE)
    IN IF b > Len(s) THEN <<>>
       ELSE <<SubSeq(s, b, e - 1)>> \o SplitFrom(s, e)

split_whitespace(s) == SplitFrom(s, 1)

---------------------------------------------------------------------------
(* struct Mail, enum State and the responses of StateMachine.              *)

Mail(from, to, data) == [from |-> from, to |-> to, data |-> data]

\* Mail { from, ..Default::default() }
DefaultMail(from) == Mail(from, <<>>, "")

Fresh == [tag |-> "Fresh"]

Greeted == [tag |-> "Greeted"]

ReceivingRcpt(mail) == [tag |-> "ReceivingRcpt", mail |-> mail]

ReceivingData(mail) == [tag |-> "ReceivingData", mail |-> mail]

Received(mail) == [tag |-> "Received", mail |-> mail]

Tags == {"Fresh", "Greeted", "ReceivingRcpt", "ReceivingData", "Received"}

HasMail(st) == st.tag \in {"ReceivingRcpt", "ReceivingData", "Received"}

OH_HAI == "220 edgemail\n"

KK == "250 Ok\n"

AUTH_OK == "235 Ok\n"

SEND_DATA_PLZ == "354 End data with <CR><LF>.<CR><LF>\n"

KTHXBYE == "221 Bye\n"

HOLD_YOUR_HORSES == ""

Domain == "smtp.deepwith.in"

ehlo_greeting == "250-" \o Domain \o " Hello " \o Domain \o "\n250 AUTH PLAIN LOGIN\n"

\* The terminator the data arm looks for.
Terminator == "\r\n.\r\n"

---------------------------------------------------------------------------
(* The inputs of the model: what a client sends in one read.               *)

HappyBody == "Subject: hi\r\n\r\nbody\r\n.\r\n"

FromBody == "From: a@b.com\r\nTo: c@d.com\r\n\r\nhi\r\n.\r\n"

TwoFromBody == "From: a@b.com, e@f.com\r\n\r\nhi\r\n.\r\n"

InnerTerminator == "x\r\n.\r\ny"

PartialTerminator == "x\r\n."

Bodies == {HappyBody, FromBody, TwoFromBody, InnerTerminator, PartialTerminator}

Commands ==
    { "HELO x", "ehlo x",
      "MAIL FROM:<a@b.com>", "MAIL FROM: <a@b.com>", "MAIL", "mail from:<a@b.com>",
      "RCPT TO:<c@d.com>", "RCPT TO: <c@d.com>", "RCPT TO:<Admin@x.com>",
      "RCPT TO: <admin@site.com>", "RCPT", "RCPT to:<c@d.com>",
      "DATA", "QUIT", "NOOP", "RSET", "AUTH PLAIN", "GARBAGE", "\r\n",
          "help", "INFO", "Vrfy x", "EXPN x" }

Chunks == Commands \cup Bodies

\* What the client of the model sends after DATA was accepted: message
\* text, or one of the commands that are then still taken as commands, or
\* a command that is then taken as text.
DataPhaseChunks == Bodies \cup {"DATA", "QUIT", "NOOP", "RSET", "AUTH PLAIN", "\r\n"}

Offered(st) == IF st.tag = "ReceivingData" THEN DataPhaseChunks ELSE Chunks

\* Every string handle_smtp is called with; "quit" is what Server::serve
\* passes at the end of the stream.
Inputs == Chunks \cup {"quit"}

\* raw_msg.split_whitespace(), tabulated over the inputs.
TokensOf == [c \in Inputs |-> split_whitespace(c)]

\* msg.next()?.to_lowercase(), tabulated over the inputs: "" when the input
\* has no token.
CommandOf ==
    [c \in Inputs |-> IF Len(TokensOf[c]) = 0 THEN "" ELSE to_lowercase(TokensOf[c][1])]

---------------------------------------------------------------------------
(* StateMachine::handle_smtp.  A call returns Ok(response) or Err, and     *)
(* leaves the machine in a state: [ok, resp, state].                       *)

Ok(resp, st) == [ok |-> TRUE, resp |-> resp, state |-> st]

Err(st) == [ok |-> FALSE, resp |-> "", state |-> st]

\* A filter that compares the address as it was written, without lowering it.
legal_recipient_as_written(to) ==
    ~contains(to, "admin") /\ ~contains(to, "postmaster") /\ ~contains(to, "hostmaster")

\* Filter out admin, postmaster and hostmaster.
legal_recipient(to) ==
    LET l == to_lowercase(to)
    IN ~contains(l, "admin") /\ ~contains(l, "postmaster") /\ ~contains(l, "hostmaster")

\* A match that knows noop only.
noop_only == {"noop"}

\* ("noop", _) | ("help", _) | ("info", _) | ("vrfy", _) | ("expn", _)
noop_commands == {"noop", "help", "info", "vrfy", "expn"}

\* A reset that forgets the mail but keeps the greeting.
rset_arm_keeps_greeting(st) == Ok(KK, IF st.tag = "Fresh" THEN Fresh ELSE Greeted)

\* ("rset", _): the state becomes Fresh.
rset_arm(st) == Ok(KK, Fresh)

\* ("mail", State::Greeted): msg is the token list after the command.
mail_arm(st, msg) ==
    IF Len(msg) = 0 THEN Err(st)
    ELSE LET from == strip_prefix(msg[1], "FROM:")
         IN IF ~from.some THEN Err(st)
            ELSE Ok(KK, ReceivingRcpt(DefaultMail(from.val)))

\* A rcpt arm that records the token before it looks for the TO: prefix.
rcpt_arm_records_first(st, msg) ==
    IF Len(msg) = 0 THEN Err(st)
    ELSE LET to == strip_prefix(msg[1], "TO:")
         IN IF ~to.some
            THEN Err(ReceivingRcpt([st.mail EXCEPT !.to = Append(@, msg[1])]))
            ELSE IF legal_recipient(to.val)
                 THEN Ok(KK, ReceivingRcpt([st.mail EXCEPT !.to = Append(@, to.val)]))
                 ELSE Ok(KK, ReceivingRcpt(st.mail))

\* ("rcpt", State::ReceivingRcpt(mail))
rcpt_arm(st, msg) ==
    IF Len(msg) = 0 THEN Err(st)
    ELSE LET to == strip_prefix(msg[1], "TO:")
         IN IF ~to.some THEN Err(st)
            ELSE IF legal_recipient(to.val)
                 THEN Ok(KK, ReceivingRcpt([st.mail EXCEPT !.to = Append(@, to.val)]))
                 ELSE Ok(KK, ReceivingRcpt(st.mail))

\* ("data", State::ReceivingRcpt(mail))
data_command_arm(st) == Ok(SEND_DATA_PLZ, ReceivingData(st.mail))

\* A quit that forgets the session outside the data phase.
quit_arm_forgets_session(st) ==
    IF st.tag = "ReceivingData" THEN Ok(KTHXBYE, Received(st.mail))
    ELSE Ok(KTHXBYE, Fresh)

\* ("quit", State::ReceivingData(mail)) and ("quit", _)
quit_arm(st) ==
    IF st.tag = "ReceivingData" THEN Ok(KTHXBYE, Received(st.mail))
    ELSE Ok(KTHXBYE, st)

\* A data arm that looks for the terminator anywhere in the chunk.
data_resp_contains(raw_msg) ==
    IF contains(raw_msg, "\r\n.\r\n") THEN KK ELSE HOLD_YOUR_HORSES

\* (_, State::ReceivingData(mail)): the response of the data arm.
data_resp(raw_msg) ==
    IF ends_with(raw_msg, Terminator) THEN KK ELSE HOLD_YOUR_HORSES

\* A data arm that keeps the last chunk only.
data_arm_keeps_last_chunk(st, raw_msg) ==
    Ok(data_resp(raw_msg), ReceivingData([st.mail EXCEPT !.data = raw_msg]))

\* (_, State::ReceivingData(mail))
data_arm(st, raw_msg) ==
    Ok(data_resp(raw_msg), ReceivingData([st.mail EXCEPT !.data = @ \o raw_msg]))

\* A helo pattern that ignores the state.
helo_pattern_any_state(command, st) == command = "helo"

\* The pattern ("helo", State::Fresh)
helo_pattern(command, st) == command = "helo" /\ st.tag = "Fresh"

\* A mail pattern that also matches before the greeting.
mail_pattern_before_greeting(command, st) ==
    command = "mail" /\ st.tag \in {"Fresh", "Greeted"}

\* The pattern ("mail", State::Greeted)
mail_pattern(command, st) == command = "mail" /\ st.tag = "Greeted"

\* The match of handle_smtp, arm by arm, in the order of the source.
dispatch(command, msg, st, raw_msg) ==
    IF command = "ehlo" /\ st.tag = "Fresh" THEN Ok(ehlo_greeting, Greeted)
    ELSE IF helo_pattern(command, st) THEN Ok(KK, Greeted)
    ELSE IF command \in noop_commands THEN Ok(KK, st)
    ELSE IF command = "rset" THEN rset_arm(st)
    ELSE IF command = "auth" THEN Ok(AUTH_OK, st)
    ELSE IF mail_pattern(command, st) THEN mail_arm(st, msg)
    ELSE IF command = "rcpt" /\ st.tag = "ReceivingRcpt" THEN rcpt_arm(st, msg)
    ELSE IF command = "data" /\ st.tag = "ReceivingRcpt" THEN data_command_arm(st)
    ELSE IF command = "quit" THEN quit_arm(st)
    ELSE IF st.tag = "ReceivingData" THEN data_arm(st, raw_msg)
    ELSE Err(st)

handle_smtp(st, raw_msg) ==
    LET tokens == TokensOf[raw_msg]
    IN IF Len(tokens) = 0 THEN Err(st)
       ELSE dispatch(CommandOf[raw_msg], Tail(tokens), st, raw_msg)

---------------------------------------------------------------------------
(* The extraction of a Message from mail.data (Server::serve, the          *)
(* State::Received arm).  MessageParser::parse is the mail_parser crate;   *)
(* it is modelled by what it does on the header section of a message:      *)
(* lines end at "\n" (a "\r" before it is dropped), the header section     *)
(* ends at the first line that is empty or has no colon, a header is       *)
(* "name: value" with the name compared case-insensitively, and an         *)
(* address list is a comma-separated list of "addr" or "name <addr>".      *)
(* The MIME parts (Message.content) are not modelled.                      *)

\* Position of the first occurrence of the character c in s at or after i,
\* or 0.
RECURSIVE IndexOf(_, _, _)
IndexOf(s, c, i) ==
    IF i > Len(s) THEN 0
    ELSE IF Char(s, i) = c THEN i
    ELSE IndexOf(s, c, i + 1)

RECURSIVE TrimStart(_)
TrimStart(s) ==
    IF Len(s) > 0 /\ IsWhitespace(Char(s, 1)) THEN TrimStart(SubSeq(s, 2, Len(s))) ELSE s

RECURSIVE TrimEnd(_)
TrimEnd(s) ==
    IF Len(s) > 0 /\ IsWhitespace(Char(s, Len(s)))
    THEN TrimEnd(SubSeq(s, 1, Len(s) - 1)) ELSE s

Trim(s) == TrimEnd(TrimStart(s))

\* The lines of s from position i on.
RECURSIVE LinesFrom(_, _)
LinesFrom(s, i) ==
    IF i > Len(s) THEN <<>>
    ELSE LET n == IndexOf(s, "\n", i)
             e == IF n = 0 THEN Len(s) ELSE n - 1
             line == SubSeq(s, i, e)
             bare == IF ends_with(line, "\r") THEN SubSeq(line, 1, Len(line) - 1) ELSE line
         IN <<bare>> \o (IF n = 0 THEN <<>> ELSE LinesFrom(s, n + 1))

\* The headers at the start of a sequence of lines, as [name, value].
RECURSIVE HeadersOf(_)
HeadersOf(lines) ==
    IF Len(lines) = 0 THEN <<>>
    ELSE LET colon == IndexOf(lines[1], ":", 1)
         IN IF colon <= 1 THEN <<>>
            ELSE <<[name |-> to_lowercase(SubSeq(lines[1], 1, colon - 1)),
                    value |-> Trim(SubSeq(lines[1], colon + 1, Len(lines[1])))]>>
                 \o HeadersOf(Tail(lines))

\* MessageParser::default().parse(&mail.data): None when no header is found.
parse(data) ==
    LET headers == HeadersOf(LinesFrom(data, 1))
    IN IF Len(headers) = 0 THEN None ELSE Some(headers)

\* The value of the last header called name, or None.
header_value(headers, name) ==
    LET at == {i \in 1..Len(headers) : headers[i].name = name}
    IN IF at = {} THEN None
       ELSE Some(headers[CHOOSE i \in at : \A j \in at : j <= i].value)

\* One address of an address list: "addr" or "name <addr>".
Addr(item) ==
    LET lt == IndexOf(item, "<", 1)
        gt == IndexOf(item, ">", 1)
    IN IF lt > 0 /\ gt > lt
       THEN [address |-> Some(SubSeq(item, lt + 1, gt - 1)),
             name |-> IF Trim(SubSeq(item, 1, lt - 1)) = "" THEN None
                      ELSE Some(Trim(SubSeq(item, 1, lt - 1)))]
       ELSE [address |-> Some(item), name |-> None]

\* Address::into_list on a header value: its comma-separated addresses.
RECURSIVE into_list(_)
into_list(value) ==
    LET comma == IndexOf(value, ",", 1)
        first == Trim(IF comma = 0 THEN value ELSE SubSeq(value, 1, comma - 1))
        rest == IF comma = 0 THEN <<>> ELSE into_list(SubSeq(value, comma + 1, Len(value)))
    IN (IF first = "" THEN <<>> ELSE <<Addr(first)>>) \o rest

Contact(address) == [email |-> address.address, name |-> address.name]

\* data.to().map(into_list).unwrap_or_default() mapped to Contact, also for
\* cc, bcc and reply_to.
contacts(headers, name) ==
    LET h == header_value(headers, name)
        list == IF h.some THEN into_list(h.val) ELSE <<>>
    IN [i \in 1..Len(list) |-> Contact(list[i])]

\* An extraction that goes on without a From header, with an empty Contact.
extract_without_from(data) ==
    LET parsed == parse(data)
    IN IF ~parsed.some THEN None
       ELSE Some([from |-> [email |-> None, name |-> None],
                  to |-> contacts(parsed.val, "to"),
                  reply_to |-> contacts(parsed.val, "reply-to"),
                  cc |-> contacts(parsed.val, "cc"),
                  bcc |-> contacts(parsed.val, "bcc"),
                  subject |-> header_value(parsed.val, "subject")])

\* An extraction that takes the first From address when there are several.
extract_first_from(data) ==
    LET parsed == parse(data)
    IN IF ~parsed.some THEN None
       ELSE LET from == header_value(parsed.val, "from")
            IN IF ~from.some THEN None
               ELSE IF Len(into_list(from.val)) = 0 THEN None
               ELSE IF ~into_list(from.val)[1].address.some THEN None
               ELSE Some([from |-> Contact(into_list(from.val)[1]),
                          to |-> contacts(parsed.val, "to"),
                          reply_to |-> contacts(parsed.val, "reply-to"),
                          cc |-> contacts(parsed.val, "cc"),
                          bcc |-> contacts(parsed.val, "bcc"),
                          subject |-> header_value(parsed.val, "subject")])

\* The block 'rec of Server::serve up to the Message it builds: None when
\* the mail is discarded.
extract(data) ==
    LET parsed == parse(data)
    IN IF ~parsed.some THEN None
       ELSE LET from == header_value(parsed.val, "from")
            IN IF ~from.some THEN None
               ELSE IF Len(into_list(from.val)) # 1 THEN None
               ELSE IF ~into_list(from.val)[1].address.some THEN None
               ELSE Some([from |-> Contact(into_list(from.val)[1]),
                          to |-> contacts(parsed.val, "to"),
                          reply_to |-> contacts(parsed.val, "reply-to"),
                          cc |-> contacts(parsed.val, "cc"),
                          bcc |-> contacts(parsed.val, "bcc"),
                          subject |-> header_value(parsed.val, "subject")])

---------------------------------------------------------------------------
(* The callers of the state machine: mod tests and Server::serve.          *)

\* No call of handle_smtp yet, and the record of a call: its input, the
\* state it was made in (and the tag of that state) and its result.
NoCall == [raw |-> "", tag |-> "none", before |-> Fresh, ok |-> TRUE, resp |-> ""]

CallOf(raw_msg, st, r) ==
    [raw |-> raw_msg, tag |-> st.tag, before |-> st, ok |-> r.ok, resp |-> r.resp]

\* Whether a call that takes st to r.state appended its input to mail.data.
Appends(st, r) ==
    st.tag = "ReceivingData" /\ r.state.tag = "ReceivingData"
    /\ r.state.mail.data # st.mail.data

AppendedAfter(st, r) ==
    IF Appends(st, r) THEN appended + 1
    ELSE IF r.state.tag \in {"ReceivingData", "Received"} THEN appended
    ELSE 0

\* The inputs the model explores: recipient lists and bodies stay small.
WithinBounds(st, r) ==
    /\ HasMail(r.state) => Len(r.state.mail.to) <= MaxRcpt
    /\ AppendedAfter(st, r) <= MaxBody

Start(p) ==
    /\ pc = p
    /\ state = Fresh
    /\ last = NoCall
    /\ appended = 0
    /\ written = ""
    /\ extractorRuns = 0
    /\ sinkCalls = 0
    /\ sent = None
    /\ backlog = 0
    /\ accepted = 0

\* mod tests: sm.handle_smtp(c) on a StateMachine, whatever the last call
\* returned.
Call(c) ==
    LET r == handle_smtp(state, c)
    IN /\ pc = "unit"
       /\ WithinBounds(state, r)
       /\ state' = r.state
       /\ last' = CallOf(c, state, r)
       /\ appended' = AppendedAfter(state, r)
       /\ UNCHANGED <<pc, written, extractorRuns, sinkCalls, sent>>
       /\ UNCHANGED listener

\* Server::greet
Greet ==
    /\ pc = "greet"
    /\ written' = OH_HAI
    /\ pc' = "read"
    /\ UNCHANGED <<state, last, appended, extractorRuns, sinkCalls, sent>>
    /\ UNCHANGED listener

\* stream.read or the write of the greeting fails: serve returns the error.
SocketError ==
    /\ pc \in {"greet", "read"}
    /\ pc' = "failed"
    /\ written' = ""
    /\ UNCHANGED <<state, last, appended, extractorRuns, sinkCalls, sent>>
    /\ UNCHANGED listener

\* A read of bytes that are not UTF-8: from_utf8 fails, serve returns.
ReadInvalid ==
    /\ pc = "read"
    /\ pc' = "failed"
    /\ written' = ""
    /\ UNCHANGED <<state, last, appended, extractorRuns, sinkCalls, sent>>
    /\ UNCHANGED listener

\* A read of 0 bytes after which the loop goes on reading.
ReadEofKeepsReading ==
    LET r == handle_smtp(state, "quit")
    IN /\ pc = "read"
       /\ state' = r.state
       /\ last' = CallOf("quit", state, r)
       /\ appended' = AppendedAfter(state, r)
       /\ written' = ""
       /\ pc' = "read"
       /\ UNCHANGED <<extractorRuns, sinkCalls, sent>>
       /\ UNCHANGED listener

\* A read of 0 bytes: handle_smtp("quit"), result ignored, and the loop ends.
ReadEof ==
    LET r == handle_smtp(state, "quit")
    IN /\ pc = "read"
       /\ state' = r.state
       /\ last' = CallOf("quit", state, r)
       /\ appended' = AppendedAfter(state, r)
       /\ written' = ""
       /\ pc' = "exited"
       /\ UNCHANGED <<extractorRuns, sinkCalls, sent>>
       /\ UNCHANGED listener

\* A loop that goes on reading after handle_smtp returned an error.
ReadChunkIgnoresError(c, writeOk) ==
    LET r == handle_smtp(state, c)
    IN /\ pc = "read"
       /\ WithinBounds(state, r)
       /\ state' = r.state
       /\ last' = CallOf(c, state, r)
       /\ appended' = AppendedAfter(state, r)
       /\ IF ~r.ok \/ r.resp = HOLD_YOUR_HORSES
          THEN writeOk /\ written' = "" /\ pc' = "read"
          ELSE IF ~writeOk
          THEN written' = "" /\ pc' = "failed"
          ELSE written' = r.resp /\ pc' = IF r.resp = KTHXBYE THEN "exited" ELSE "read"
       /\ UNCHANGED <<extractorRuns, sinkCalls, sent>>
       /\ UNCHANGED listener

\* One turn of the loop of Server::serve on the chunk c; writeOk is whether
\* write_all of the response succeeds.
ReadChunk(c, writeOk) ==
    LET r == handle_smtp(state, c)
    IN /\ pc = "read"
       /\ WithinBounds(state, r)
       /\ state' = r.state
       /\ last' = CallOf(c, state, r)
       /\ appended' = AppendedAfter(state, r)
       /\ IF ~r.ok
          THEN writeOk /\ written' = "" /\ pc' = "failed"
          ELSE IF r.resp = HOLD_YOUR_HORSES
          THEN writeOk /\ written' = "" /\ pc' = "read"
          ELSE IF ~writeOk
          THEN written' = "" /\ pc' = "failed"
          ELSE written' = r.resp /\ pc' = IF r.resp = KTHXBYE THEN "exited" ELSE "read"
       /\ UNCHANGED <<extractorRuns, sinkCalls, sent>>
       /\ UNCHANGED listener

\* The chunks the data arm appends, the values mail.data can take with at
\* most MaxBody of them, and the Message extracted from each: the work of
\* the block 'rec, done once for every transcript.
Appendable ==
    { c \in DataPhaseChunks :
        LET r == handle_smtp(ReceivingData(Mail("", <<>>, "")), c)
        IN r.ok /\ r.state.tag = "ReceivingData" /\ r.state.mail.data # "" }

RECURSIVE TranscriptsOf(_)
TranscriptsOf(n) ==
    IF n = 0 THEN {""}
    ELSE LET shorter == TranscriptsOf(n - 1)
         IN shorter \cup {t \o c : t \in shorter, c \in Appendable}

Transcripts == TranscriptsOf(MaxBody)

MessageOf == [data \in Transcripts |-> extract(data)]

\* A final match that also sends the mail of a connection that ended
\* before DATA.
InspectAnyMail ==
    /\ pc = "exited"
    /\ written' = ""
    /\ IF HasMail(state)
       THEN LET message == MessageOf[state.mail.data]
            IN /\ extractorRuns' = extractorRuns + 1
               /\ IF message.some
                  THEN sent' = message /\ sinkCalls' = sinkCalls + 1 /\ pc' = "sending"
                  ELSE UNCHANGED <<sent, sinkCalls>> /\ pc' = "done"
       ELSE UNCHANGED <<extractorRuns, sent, sinkCalls>> /\ pc' = "done"
    /\ UNCHANGED <<state, last, appended>>
    /\ UNCHANGED listener

\* The match on the final state, up to the post of the Message.
Inspect ==
    /\ pc = "exited"
    /\ written' = ""
    /\ IF state.tag = "Received"
       THEN LET message == MessageOf[state.mail.data]
            IN /\ extractorRuns' = extractorRuns + 1
               /\ IF message.some
                  THEN sent' = message /\ sinkCalls' = sinkCalls + 1 /\ pc' = "sending"
                  ELSE UNCHANGED <<sent, sinkCalls>> /\ pc' = "done"
       ELSE UNCHANGED <<extractorRuns, sent, sinkCalls>> /\ pc' = "done"
    /\ UNCHANGED <<state, last, appended>>
    /\ UNCHANGED listener

\* The post returns, with a response or an error: either is only logged.
Deliver ==
    /\ pc = "sending"
    /\ pc' = "done"
    /\ UNCHANGED <<state, last, appended, written, extractorRuns, sinkCalls, sent>>
    /\ UNCHANGED listener

\* The state machine called directly, as the unit tests call it.
InitUnit == Start("unit")

NextUnit == \E c \in Offered(state) : Call(c)

SpecUnit == InitUnit /\ [][NextUnit]_vars

\* One connection served by Server::serve.
Init == Start("greet")

Next ==
    \/ Greet
    \/ SocketError
    \/ ReadInvalid
    \/ ReadEof
    \/ \E c \in Offered(state), writeOk \in BOOLEAN : ReadChunk(c, writeOk)
    \/ Inspect
    \/ Deliver

Spec == Init /\ [][Next]_vars

\* The peer ends the session: it disconnects, or it sends QUIT.
PeerEnds ==
    \/ ReadEof
    \/ \E writeOk \in BOOLEAN : ReadChunk("QUIT", writeOk)

\* One connection whose socket operations complete and whose peer ends the
\* session at some time: the greeting is written, the read that sees the
\* end of the peer returns, and the final match and the post run to their
\* end.
SpecFair ==
    /\ Init
    /\ [][Next]_vars
    /\ WF_vars(Greet)
    /\ WF_vars(PeerEnds)
    /\ WF_vars(Inspect)
    /\ WF_vars(Deliver)

\* A client connects to the listening socket; the connection waits in the
\* listener until main accepts it.
Connect ==
    /\ backlog + accepted < MaxClients
    /\ backlog' = backlog + 1
    /\ UNCHANGED <<pc, state, last, appended, written, extractorRuns, sinkCalls, sent,
                   accepted>>

\* main: listener.accept() returns a connection and Server::new makes its
\* state machine; serve starts inside run_until.
Accept ==
    /\ pc = "accept"
    /\ backlog > 0
    /\ backlog' = backlog - 1
    /\ accepted' = accepted + 1
    /\ pc' = "greet"
    /\ state' = Fresh
    /\ last' = NoCall
    /\ appended' = 0
    /\ written' = ""
    /\ extractorRuns' = 0
    /\ sinkCalls' = 0
    /\ sent' = None

\* main: listener.accept() fails and the ? operator ends main.
AcceptError ==
    /\ pc = "accept"
    /\ pc' = "stopped"
    /\ UNCHANGED <<state, last, appended, written, extractorRuns, sinkCalls, sent>>
    /\ UNCHANGED listener

\* main: the future given to run_until has completed; its result is dropped
\* by ok() with the Server, and the loop goes back to listener.accept().
ServeReturns ==
    /\ pc \in {"done", "failed"}
    /\ pc' = "accept"
    /\ state' = Fresh
    /\ last' = NoCall
    /\ appended' = 0
    /\ written' = ""
    /\ extractorRuns' = 0
    /\ sinkCalls' = 0
    /\ sent' = None
    /\ UNCHANGED listener

\* The program: the accept loop of main, serving one connection at a time.
InitMain == Start("accept")

NextMain ==
    \/ Connect
    \/ Accept
    \/ AcceptError
    \/ ServeReturns
    \/ Next

SpecMain == InitMain /\ [][NextMain]_vars

---------------------------------------------------------------------------
(* The transition table of the specification, as the claims state it.      *)

\* The commands the table accepts in any state.
AnyStateKeywords == noop_commands \cup {"rset", "auth", "quit"}

\* The rows of the transition table: a (command keyword, state tag) pair.
Listed(k, tag) ==
    \/ k \in {"ehlo", "helo"} /\ tag = "Fresh"
    \/ k \in AnyStateKeywords
    \/ k = "mail" /\ tag = "Greeted"
    \/ k \in {"rcpt", "data"} /\ tag = "ReceivingRcpt"
    \/ tag = "ReceivingData"

\* The second token of an input, "" when there is none.
Argument(c) == IF Len(TokensOf[c]) < 2 THEN "" ELSE TokensOf[c][2]

\* The address a RCPT TO command declares, in either spelling
\* ("RCPT TO:<addr>" and "RCPT TO: <addr>"); "" when it declares none.
DeclaredRecipient(c) ==
    IF Len(TokensOf[c]) >= 3 /\ TokensOf[c][2] = "TO:" THEN TokensOf[c][3]
    ELSE IF starts_with(Argument(c), "TO:") THEN strip_prefix(Argument(c), "TO:").val
    ELSE ""

\* The last call of handle_smtp was made in the state tag.
CalledIn(tag) == last.tag = tag

\* The command keyword of the last call, "" before any call.
LastKeyword == IF last.tag = "none" THEN "" ELSE CommandOf[last.raw]

---------------------------------------------------------------------------
(* C1 .. C10                                                               *)

\* C1: whenever handle_smtp is called with a command keyword in a state
\* such that the (keyword, state) pair is no row of the transition table,
\* the call returns an error.
C1_UnlistedPairFails ==
    (last.tag \in Tags /\ LastKeyword # "" /\ ~Listed(LastKeyword, last.tag))
        => ~last.ok

\* C1 witness: MAIL FROM was called in Received (Completed) and failed.
C1_Witness ==
    /\ CalledIn("Received")
    /\ last.raw = "MAIL FROM:<a@b.com>"
    /\ ~last.ok

\* C2, as claimed: each step of the flow HELO, MAIL FROM, RCPT TO (one or
\* more), DATA, data chunks, QUIT succeeds and gives the next tag of
\* Fresh, Greeted, ReceivingRcpt, ReceivingData, Received; a data chunk is
\* any chunk sent in ReceivingData that is not one of the commands the
\* table accepts in any state.
C2_RegularFlow ==
    /\ (CalledIn("Fresh") /\ LastKeyword = "helo")
           => (last.ok /\ state.tag = "Greeted")
    /\ (CalledIn("Greeted") /\ LastKeyword = "mail" /\ starts_with(Argument(last.raw), "FROM:"))
           => (last.ok /\ state.tag = "ReceivingRcpt")
    /\ (CalledIn("ReceivingRcpt") /\ LastKeyword = "rcpt" /\ starts_with(Argument(last.raw), "TO:"))
           => (last.ok /\ state.tag = "ReceivingRcpt")
    /\ (CalledIn("ReceivingRcpt") /\ LastKeyword = "data")
           => (last.ok /\ state.tag = "ReceivingData")
    /\ (CalledIn("ReceivingData") /\ LastKeyword \notin AnyStateKeywords)
           => (last.ok /\ state.tag = "ReceivingData")
    /\ (CalledIn("ReceivingData") /\ LastKeyword = "quit")
           => (last.ok /\ state.tag = "Received")

\* C3, as claimed: when the connection of the happy path HELO x,
\* MAIL FROM: <a@b.com>, RCPT TO: <c@d.com>, DATA, the body
\* "Subject: hi ...", QUIT is over, a Message was extracted whose
\* from.email is a@b.com and whose to holds c@d.com.
C3_HappyPathMessage ==
    (pc = "done" /\ last.raw = "QUIT" /\ state = Received(Mail("", <<"">>, HappyBody)))
        => /\ sent.some
           /\ sent.val.from.email = Some("a@b.com")
           /\ \E i \in 1..Len(sent.val.to) : sent.val.to[i].email = Some("c@d.com")

\* C3, amended: the Message comes from the headers of mail.data alone.
\* After the happy path, whose body has no From header, the mail is
\* discarded; with the body "From: a@b.com / To: c@d.com" in its place the
\* Message has from.email a@b.com and c@d.com in to, whatever MAIL FROM
\* and RCPT TO declared.
C3_MessageFromHeaders ==
    (pc \in {"sending", "done"} /\ state.tag = "Received")
        => /\ state.mail.data = HappyBody => (~sent.some /\ sinkCalls = 0)
           /\ state.mail.data = FromBody =>
                 /\ sent.some
                 /\ sent.val.from.email = Some("a@b.com")
                 /\ \E i \in 1..Len(sent.val.to) : sent.val.to[i].email = Some("c@d.com")

\* C3 witness: the happy path of the claim is over and nothing was sent.
C3_Witness ==
    /\ pc = "done"
    /\ last.raw = "QUIT"
    /\ state = Received(Mail("", <<"">>, HappyBody))
    /\ extractorRuns = 1
    /\ ~sent.some

\* C4, as claimed: in Fresh every command other than EHLO and HELO fails
\* and the state stays Fresh.
C4_OnlyGreetingInFresh ==
    (CalledIn("Fresh") /\ LastKeyword \notin {"ehlo", "helo"})
        => (~last.ok /\ state = Fresh)

\* C4, amended: in Fresh every command other than EHLO, HELO and the
\* commands accepted in any state (NOOP, HELP, INFO, VRFY, EXPN, RSET,
\* AUTH, QUIT) fails and the state stays Fresh.
C4_OnlyGreetingOrAnyStateInFresh ==
    (CalledIn("Fresh") /\ LastKeyword \notin {"ehlo", "helo"} \cup AnyStateKeywords)
        => (~last.ok /\ state = Fresh)

\* C4 witness: MAIL FROM before the greeting failed and left the state
\* Fresh.
C4_Witness ==
    /\ CalledIn("Fresh")
    /\ last.raw = "MAIL FROM: <a@b.com>"
    /\ ~last.ok
    /\ state = Fresh

\* C5, as claimed: a RCPT TO that declares an address, called in
\* ReceivingRcpt, returns 250 Ok, and recipients becomes recipients with
\* the address at its end when the address is legal, and stays what it was
\* when it is not.
C5_RecipientAppendedIffLegal ==
    [][(state.tag = "ReceivingRcpt" /\ last'.tag = "ReceivingRcpt"
          /\ CommandOf[last'.raw] = "rcpt" /\ DeclaredRecipient(last'.raw) # "")
        => /\ last'.ok
           /\ last'.resp = KK
           /\ state'.tag = "ReceivingRcpt"
           /\ state'.mail.to =
                 IF legal_recipient(DeclaredRecipient(last'.raw))
                 THEN Append(state.mail.to, DeclaredRecipient(last'.raw))
                 ELSE state.mail.to]_vars

C7_RsetGivesFresh ==
    /\ LastKeyword = "rset" => (last.ok /\ last.resp = KK /\ state = Fresh)
    /\ (CalledIn("Fresh") /\ LastKeyword = "mail") => (~last.ok /\ state = Fresh)

\* C7 witness: RSET was called in Received (Completed).
C7_Witness ==
    /\ CalledIn("Received")
    /\ last.raw = "RSET"
    /\ state = Fresh

\* C8, as claimed: every chunk other than QUIT handled in ReceivingData
\* succeeds and leaves ReceivingData with the same sender and recipients
\* and with the chunk appended to data.
C8_EveryChunkAppended ==
    [][(state.tag = "ReceivingData" /\ last'.tag = "ReceivingData"
          /\ CommandOf[last'.raw] # "quit")
        => /\ last'.ok
           /\ state' = ReceivingData([state.mail EXCEPT !.data = @ \o last'.raw])]_vars

\* C9, as claimed: when the stream ends while the state is ReceivingData,
\* the mail is not parsed and nothing is posted to the sink.
C9_EofDiscardsMail ==
    (CalledIn("ReceivingData") /\ last.raw = "quit")
        => (extractorRuns = 0 /\ sinkCalls = 0 /\ ~sent.some)

\* C10: a connection posts to the sink at most once, and only when the
\* loop is over, the state is Received and the extraction of its mail.data
\* gave the Message posted; a connection in Fresh, Greeted or ReceivingRcpt
\* has neither parsed a mail nor posted.
C10_SinkAtMostOnce ==
    /\ sinkCalls <= 1
    /\ extractorRuns <= 1
    /\ sinkCalls <= extractorRuns
    /\ extractorRuns = 1 => (pc \in {"sending", "done"} /\ state.tag = "Received")
    /\ sinkCalls = 1 => (extract(state.mail.data).some /\ sent = extract(state.mail.data))
    /\ sinkCalls = 0 => ~sent.some
    /\ state.tag \in {"Fresh", "Greeted", "ReceivingRcpt"}
          => (extractorRuns = 0 /\ sinkCalls = 0)

\* C10 witness: a connection is over and has posted its Message.
C10_Witness ==
    /\ pc = "done"
    /\ sinkCalls = 1
    /\ sent.some

---------------------------------------------------------------------------
(* C11 .. C20                                                              *)

\* C11: when handle_smtp returns an error, or the chunk read is not valid
\* text, Server::serve returns at once: after the failing input nothing is
\* written, nothing more is read, no mail is parsed and nothing is posted
\* to the sink, whatever the state was.
C11_ErrorEndsConnection ==
    /\ ~last.ok => pc = "failed"
    /\ pc = "failed" =>
          /\ written = ""
          /\ extractorRuns = 0
          /\ sinkCalls = 0
          /\ ~sent.some
          /\ ~ENABLED Next

\* C11 witness: a chunk failed in ReceivingData, with a mail in progress,
\* and the connection is over.
C11_Witness ==
    /\ pc = "failed"
    /\ ~last.ok
    /\ CalledIn("ReceivingData")
    /\ state.tag = "ReceivingData"
    /\ state.mail.data # ""

\* C12: connections are served independently of each other: while the
\* handler of one connection waits for its client to send something, a
\* connection that another client has made is still accepted.
C12_AcceptedWhileAnotherWaits ==
    (pc = "read" /\ backlog > 0) => ENABLED Accept

\* The mailbox names the legality predicate of the specification forbids.
ForbiddenWords == {"admin", "postmaster", "hostmaster"}

\* The strings a RCPT command of the explored inputs can ask to record, and
\* those of them that hold a forbidden word in any mix of cases.
RecordableRecipients ==
    { SubSeq(Argument(c), 4, Len(Argument(c))) :
        c \in {d \in Commands : starts_with(Argument(d), "TO:")} }

IllegalRecipients ==
    { a \in RecordableRecipients :
        \E w \in ForbiddenWords : contains(to_lowercase(a), w) }

\* The examples of the specification for the legality predicate.
LegalityExamples ==
    /\ ~legal_recipient("Admin@x.com")
    /\ ~legal_recipient("POSTmaster@x.com")
    /\ legal_recipient("a@b.com")

\* C13: in ReceivingRcpt, ReceivingData and Received no element of the
\* recipients holds a forbidden word in any mix of cases, and the predicate
\* is case-insensitive: Admin@x.com and POSTmaster@x.com are illegal,
\* a@b.com is legal.
C13_RecipientsLegal ==
    /\ HasMail(state) =>
          \A i \in 1..Len(state.mail.to) : state.mail.to[i] \notin IllegalRecipients
    /\ LegalityExamples

\* C13 witness: a RCPT for a mixed-case Admin address was answered and the
\* recipients hold only the legal address given before it.
C13_Witness ==
    /\ last.raw = "RCPT TO:<Admin@x.com>"
    /\ last.ok
    /\ state.tag = "ReceivingRcpt"
    /\ state.mail.to = <<"<c@d.com>">>

\* C14: mail.data changes only by a call made in ReceivingData that stays
\* in ReceivingData, and then it becomes the old value with the chunk at
\* its end; it is empty in every ReceivingRcpt state; a call made in any
\* other state, and DATA and QUIT, carry it over unchanged. So within one
\* mail every value of mail.data is a prefix of the next.
C14_BodyOnlyAppended ==
    /\ state.tag = "ReceivingRcpt" => state.mail.data = ""
    /\ (last.tag # "none" /\ HasMail(last.before) /\ HasMail(state)) =>
          \/ state.mail.data = last.before.mail.data
          \/ /\ last.before.tag = "ReceivingData"
             /\ state.tag = "ReceivingData"
             /\ state.mail.data = last.before.mail.data \o last.raw

\* C14 witness: a mail completed by QUIT whose data is two chunks, one
\* after the other.
C14_Witness ==
    /\ state.tag = "Received"
    /\ LastKeyword = "quit"
    /\ appended = 2
    /\ \E a, b \in Bodies : state.mail.data = a \o b

\* The place of a state tag in the order
\* Fresh < Greeted < ReceivingRcpt < ReceivingData < Received.
Rank(tag) ==
    CASE tag = "Fresh" -> 0
      [] tag = "Greeted" -> 1
      [] tag = "ReceivingRcpt" -> 2
      [] tag = "ReceivingData" -> 3
      [] tag = "Received" -> 4

\* C15: a successful call other than RSET leaves the tag where it is or
\* moves it one place forward in the order; a step that lowers the tag is
\* a successful RSET and ends in Fresh.
C15_ForwardOnly ==
    last.tag # "none" =>
        /\ (last.ok /\ LastKeyword # "rset") =>
              Rank(state.tag) \in {Rank(last.before.tag), Rank(last.before.tag) + 1}
        /\ Rank(state.tag) < Rank(last.before.tag) =>
              (last.ok /\ LastKeyword = "rset" /\ state = Fresh)

\* C15 witness: RSET in the data phase took the tag three places back, to
\* Fresh.
C15_Witness ==
    /\ CalledIn("ReceivingData")
    /\ LastKeyword = "rset"
    /\ last.ok
    /\ state = Fresh

\* C16: a call whose first token is NOOP, HELP, INFO, VRFY, EXPN or AUTH in
\* any mix of cases succeeds in every state and leaves the state as it was,
\* the first five with 250 Ok and AUTH with 235 Ok; QUIT called in a state
\* other than ReceivingData succeeds with 221 Bye and leaves the state as
\* it was.
C16_NoEffectCommands ==
    /\ LastKeyword \in {"noop", "help", "info", "vrfy", "expn"} =>
          (last.ok /\ last.resp = KK /\ state = last.before)
    /\ LastKeyword = "auth" =>
          (last.ok /\ last.resp = AUTH_OK /\ state = last.before)
    /\ (LastKeyword = "quit" /\ last.tag # "ReceivingData") =>
          (last.ok /\ last.resp = KTHXBYE /\ state = last.before)

\* C16 witness: a lower-case help was answered 250 Ok with a mail in
\* progress that has a recipient, and the mail is still there.
C16_Witness ==
    /\ last.raw = "help"
    /\ last.ok
    /\ last.resp = KK
    /\ CalledIn("ReceivingRcpt")
    /\ state.tag = "ReceivingRcpt"
    /\ Len(state.mail.to) = 1

\* The address a MAIL FROM command declares, in either spelling
\* ("MAIL FROM:<addr>" and "MAIL FROM: <addr>"); "" when it declares none.
DeclaredSender(c) ==
    IF Len(TokensOf[c]) >= 3 /\ TokensOf[c][2] = "FROM:" THEN TokensOf[c][3]
    ELSE IF starts_with(Argument(c), "FROM:") THEN strip_prefix(Argument(c), "FROM:").val
    ELSE ""

\* C17: a MAIL FROM that declares an address, in either spelling, called in
\* Greeted, returns 250 Ok and leaves ReceivingRcpt with a new mail whose
\* sender is the declared address and whose recipients and data are empty.
C17_MailRecordsSender ==
    (CalledIn("Greeted") /\ LastKeyword = "mail" /\ DeclaredSender(last.raw) # "")
        => /\ last.ok
           /\ last.resp = KK
           /\ state = ReceivingRcpt(Mail(DeclaredSender(last.raw), <<>>, ""))

\* The number of addresses in the From header of a transcript, 0 when the
\* transcript does not parse or has no From header.
FromAddresses(data) ==
    LET parsed == parse(data)
    IN IF ~parsed.some THEN 0
       ELSE LET from == header_value(parsed.val, "from")
            IN IF ~from.some THEN 0
               ELSE Cardinality({i \in 1..Len(into_list(from.val)) :
                                    into_list(from.val)[i].address.some})

\* C18: once the final state has been inspected and its mail parsed, a
\* Message has been built only if the transcript has exactly one From
\* address; when none was built (the transcript does not parse, or has no
\* From address, or has several) the sink has not been called, nothing has
\* been written to the client and the handler ends with Ok, not with an
\* error.
C18_DiscardIsSilent ==
    extractorRuns = 1 =>
        /\ sent.some => FromAddresses(state.mail.data) = 1
        /\ FromAddresses(state.mail.data) # 1 => ~sent.some
        /\ ~sent.some => (sinkCalls = 0 /\ written = "" /\ pc = "done")

\* C18 witness: a completed mail with two From addresses was parsed and
\* discarded, and the handler has returned.
C18_Witness ==
    /\ pc = "done"
    /\ extractorRuns = 1
    /\ state.tag = "Received"
    /\ FromAddresses(state.mail.data) = 2
    /\ sinkCalls = 0

\* C19: a call of handle_smtp that returns an error leaves the state
\* exactly as it was: the same tag and the same sender, recipients and
\* data.
C19_ErrorKeepsState ==
    ~last.ok => state = last.before

\* C19 witness: a RCPT whose second token has a lower-case to: failed with
\* a mail in progress that has a recipient, and the mail is as it was.
C19_Witness ==
    /\ ~last.ok
    /\ last.raw = "RCPT to:<c@d.com>"
    /\ CalledIn("ReceivingRcpt")
    /\ state.tag = "ReceivingRcpt"
    /\ state.mail.to = <<"<c@d.com>">>

\* C20: when the socket operations complete and the peer disconnects or
\* sends QUIT at some time, Server::serve returns, with Ok or with an
\* error, from every state it can be in; and once 221 Bye has been written
\* or the loop has been left, nothing more is written to the client and
\* handle_smtp is not called again.
C20_ServeReturns ==
    /\ (pc \in {"greet", "read", "exited", "sending"}) ~> (pc \in {"done", "failed"})
    /\ [][(written = KTHXBYE \/ pc \in {"exited", "sending", "done"})
             => (last' = last /\ written' = "")]_vars

\* C20 witness: QUIT was answered 221 Bye in the data phase and the handler
\* has returned after posting the mail.
C20_Witness ==
    /\ pc = "done"
    /\ last.raw = "QUIT"
    /\ last.resp = KTHXBYE
    /\ CalledIn("ReceivingData")
    /\ sinkCalls = 1

====
